---- MODULE Spec2Model ----
(***************************************************************************)
(* paperlessngx-to-sevdesk: the polling cycle of src/src/main.py.          *)
(*                                                                         *)
(* main.py holds two variants of the program.  The "email" variant         *)
(* (lines 21-198) forwards staged files by SMTP, the "upload" variant      *)
(* (lines 1-21 and 200-316) posts them to the sevDesk API.  The variable   *)
(* variant says which of the two is running; it never changes.             *)
(*                                                                         *)
(* Spec models the cycle `while True: poll; flush; sleep` from the head of *)
(* the loop on (main.py:191 and main.py:308).  One action is one whole     *)
(* call of a function of the program; what the network, the sink and the   *)
(* file system answer during the call are the action's inputs.             *)
(***************************************************************************)
EXTENDS Integers, Sequences, FiniteSets, TLC

\* ---- bounds of the model ------------------------------------------------
MaxId == 3      \* document ids are 1..MaxId
MaxLen == 2     \* longest listing (data['all']) the source returns

\* ---- program constants --------------------------------------------------
Unset == 0      \* last_downloaded_document_id: int = 0  (the unset sentinel)

Ids == 1..MaxId
Variants == {"email", "upload"}

\* What one HTTP request to paperless-ngx can do.
\*   ok       2xx/3xx answer carrying the requested body
\*   httperr  an answer with a 4xx/5xx status and an error body
\*   neterr   requests raises a RequestException (connection, timeout)
NetOutcomes == {"ok", "httperr", "neterr"}

\* What file.write_bytes can do: write the file, or raise OSError (workdir/
\* missing, no permission, disk full).
WriteOutcomes == {"ok", "oserror"}

\* The answers to one download attempt: the request's and, for a request
\* that was answered with the document, the write's.
DownloadOutcomes ==
    {o \in [net : NetOutcomes, write : WriteOutcomes] :
        o.net # "ok" => o.write = "ok"}

\* The member 'all' of a listing answer: a list of ids, in the order the
\* source chose.
Listings == UNION {[1..n -> Ids] : n \in 0..MaxLen}

\* ---- pure helpers ---------------------------------------------------------
Max(S) == CHOOSE m \in S : \A x \in S : x <= m

Range(s) == {s[i] : i \in 1..Len(s)}

RECURSIVE Insert(_, _)
Insert(x, s) ==
    IF s = <<>> THEN <<x>>
    ELSE IF x <= Head(s) THEN <<x>> \o s
    ELSE <<Head(s)>> \o Insert(x, Tail(s))

\* sorted(data['all']): ascending, duplicates kept.
RECURSIVE sorted(_)
sorted(s) == IF s = <<>> THEN <<>> ELSE Insert(Head(s), sorted(Tail(s)))

\* ---- paperlessngx_get ---------------------------------------------------
\* The result of paperlessngx_get: a response (with the body asked for, or
\* with an error body), None, or an exception leaving the function.
Response(body) == [kind |-> "response", body |-> body]
None == [kind |-> "none", body |-> "none"]
Raised == [kind |-> "raise", body |-> "none"]

\* email variant: raise_for_status turns an error status into an exception,
\* and every RequestException is caught and answered with None.
paperlessngx_get_email(net) ==
    IF net = "ok" THEN Response("good") ELSE None

\* upload variant: the response is returned whatever its status; an
\* exception of requests.get is not caught.
paperlessngx_get_upload(net) ==
    CASE net = "ok" -> Response("good")
      [] net = "httperr" -> Response("errbody")
      [] net = "neterr" -> Raised

paperlessngx_get(v, net) ==
    IF v = "email" THEN paperlessngx_get_email(net)
    ELSE paperlessngx_get_upload(net)

\* ---- configuration: os.getenv, Config, is_valid ---------------------------
\* Python values as the configuration code sees them: None, a string, an
\* int, or the exception int() raised.
PyNone == [t |-> "none", s |-> "", n |-> 0]
PyStr(x) == [t |-> "str", s |-> x, n |-> 0]
PyInt(x) == [t |-> "int", s |-> "", n |-> x]
PyError == [t |-> "error", s |-> "", n |-> 0]

\* bool(v) is False
Falsy(v) ==
    \/ v.t = "none"
    \/ v.t = "str" /\ v.s = ""
    \/ v.t = "int" /\ v.n = 0

\* a or b
Or(a, b) == IF a.t = "error" THEN a ELSE IF Falsy(a) THEN b ELSE a

\* int(v): TypeError for None, ValueError for a string that is no number.
IntOf(v) ==
    CASE v = PyStr("0") -> PyInt(0)
      [] v = PyStr("60") -> PyInt(60)
      [] OTHER -> PyError

DefaultRunInterval == 300

\* The environment variables the two variants read, and the values the
\* model gives them (PyNone: the variable is not set).
StringValues == {PyNone, PyStr("x")}
FilterValues == {PyNone, PyStr(""), PyStr("7")}
IntValues == {PyNone, PyStr("abc"), PyStr("0"), PyStr("60")}

Envs ==
    [PAPERLESSNGX_URL : StringValues, PAPERLESSNGX_TOKEN : StringValues,
     SEVDESK_TOKEN : StringValues, EMAIL_ACCOUNT : StringValues,
     SMTP_SERVER : StringValues, LOGIN : StringValues,
     PASSWORD : StringValues,
     PAPERLESSNGX_FILTER_TAG_ID : FilterValues,
     PAPERLESSNGX_FILTER_DOCUMENT_TYPE_ID : FilterValues,
     SMTP_PORT : IntValues, RUN_INTERVAL : IntValues]

\* An environment in which every variable is set to a usable value.
FullEnv ==
    [PAPERLESSNGX_URL |-> PyStr("x"), PAPERLESSNGX_TOKEN |-> PyStr("x"),
     SEVDESK_TOKEN |-> PyStr("x"), EMAIL_ACCOUNT |-> PyStr("x"),
     SMTP_SERVER |-> PyStr("x"), LOGIN |-> PyStr("x"),
     PASSWORD |-> PyStr("x"),
     PAPERLESSNGX_FILTER_TAG_ID |-> PyStr("7"),
     PAPERLESSNGX_FILTER_DOCUMENT_TYPE_ID |-> PyStr("7"),
     SMTP_PORT |-> PyStr("60"), RUN_INTERVAL |-> PyStr("60")]

\* The fields of Config before the module-level Config(...) has run.
NoConfig ==
    [error |-> FALSE,
     paperlessngx_url |-> PyNone, paperlessngx_token |-> PyNone,
     paperlessngx_filter_tag_id |-> PyNone,
     paperlessngx_filter_document_type_id |-> PyNone,
     sevdesk_token |-> PyNone, from_email |-> PyNone, to_email |-> PyNone,
     smtp_server |-> PyNone, smtp_port |-> PyNone, login |-> PyNone,
     password |-> PyNone, run_interval |-> PyNone]

\* email variant, config = Config(...): sevdesk_token is not passed and keeps
\* its default None; int(os.getenv(...)) raises when the variable is unset
\* or no number.
config_email(en) ==
    LET port == Or(IntOf(en.SMTP_PORT), PyInt(0))
        interval == Or(IntOf(en.RUN_INTERVAL), PyInt(DefaultRunInterval))
    IN  [NoConfig EXCEPT
            !.error = port.t = "error" \/ interval.t = "error",
            !.paperlessngx_url = Or(en.PAPERLESSNGX_URL, PyStr("")),
            !.paperlessngx_token = Or(en.PAPERLESSNGX_TOKEN, PyStr("")),
            !.paperlessngx_filter_tag_id =
                Or(en.PAPERLESSNGX_FILTER_TAG_ID, PyInt(0)),
            !.paperlessngx_filter_document_type_id =
                Or(en.PAPERLESSNGX_FILTER_DOCUMENT_TYPE_ID, PyInt(0)),
            !.from_email = Or(en.EMAIL_ACCOUNT, PyStr("")),
            !.to_email = PyStr("autobox@sevdesk.email"),
            !.smtp_server = Or(en.SMTP_SERVER, PyStr("")),
            !.smtp_port = port,
            !.login = Or(en.LOGIN, PyStr("")),
            !.password = Or(en.PASSWORD, PyStr("")),
            !.run_interval = interval]

\* upload variant, config = Config(...)
config_upload(en) ==
    LET interval == Or(IntOf(en.RUN_INTERVAL), PyInt(DefaultRunInterval))
    IN  [NoConfig EXCEPT
            !.error = interval.t = "error",
            !.paperlessngx_url = Or(en.PAPERLESSNGX_URL, PyStr("")),
            !.paperlessngx_token = Or(en.PAPERLESSNGX_TOKEN, PyStr("")),
            !.paperlessngx_filter_tag_id =
                Or(en.PAPERLESSNGX_FILTER_TAG_ID, PyInt(0)),
            !.paperlessngx_filter_document_type_id =
                Or(en.PAPERLESSNGX_FILTER_DOCUMENT_TYPE_ID, PyInt(0)),
            !.sevdesk_token = Or(en.SEVDESK_TOKEN, PyInt(0)),
            !.run_interval = interval]

Config(v, en) == IF v = "email" THEN config_email(en) ELSE config_upload(en)

\* email variant: all(required_fields)
is_valid_email(c) ==
    \A f \in {c.paperlessngx_url, c.paperlessngx_token, c.sevdesk_token,
              c.from_email, c.to_email, c.smtp_server, c.smtp_port,
              c.login, c.password} : ~Falsy(f)

\* Mutant of is_valid_upload: the test of sevdesk_token is lost.
is_valid_upload_no_sink(c) ==
    /\ ~Falsy(c.paperlessngx_url)
    /\ ~Falsy(c.paperlessngx_token)

\* upload variant: three tests, each returning False
is_valid_upload(c) ==
    /\ ~Falsy(c.paperlessngx_url)
    /\ ~Falsy(c.paperlessngx_token)
    /\ ~Falsy(c.sevdesk_token)

\* The environment variables that feed the fields is_valid tests.
RequiredVars(v) ==
    IF v = "email"
    THEN {"PAPERLESSNGX_URL", "PAPERLESSNGX_TOKEN", "EMAIL_ACCOUNT",
          "SMTP_SERVER", "SMTP_PORT", "LOGIN", "PASSWORD"}
    ELSE {"PAPERLESSNGX_URL", "PAPERLESSNGX_TOKEN", "SEVDESK_TOKEN"}

is_valid(v, c) == IF v = "email" THEN is_valid_email(c) ELSE is_valid_upload(c)

\* ---- state -------------------------------------------------------------
VARIABLES
    variant,        \* which main() is running: "email" or "upload"
    env,            \* os.environ of the process
    config,         \* the module-level config object
    pc,             \* position of the process: "start" (before config is
                    \* built), "main" (at main()), "poll", "flush", "sleep"
                    \* (in the loop), "exited" (exit(1)), "crashed" (an
                    \* exception left the program)
    watermark,      \* last_downloaded_document_id
    workdir,        \* workdir/<id>.pdf for each id: "absent" or its content
    lastPoll,       \* history: what the Fetch Stage just did
    lastFlush,      \* history: what the Forward Stage just did
    downloaded,     \* history: ids downloaded and staged by this process
    listed,         \* history: ids above bootMax this process has seen listed
    bootMax,        \* history: the watermark the bootstrap poll set
    pending,        \* history: staged files with a failed delivery behind them
    firstCycle      \* history: the process has not slept yet

vars == <<variant, env, config, pc, watermark, workdir, lastPoll, lastFlush,
          downloaded, listed, bootMax, pending, firstCycle>>

\* Content of a staged file: the document ("good") or the body of an error
\* answer ("errbody").
Contents == {"good", "errbody"}
FileStates == Contents \cup {"absent"}

\* glob.glob("workdir/*.pdf")
Files(wd) == {i \in Ids : wd[i] # "absent"}

\* ---- Fetch Stage: paperlessngx_lookup_new_documents ----------------------
\* A listing answer: the request's outcome, whether the body can be read
\* as a JSON object with a member 'all', and that member.
ListingAnswers ==
    {[net |-> "ok", json |-> TRUE, all |-> l] : l \in Listings}
    \cup {[net |-> "ok", json |-> FALSE, all |-> <<>>]}
    \cup {[net |-> n, json |-> FALSE, all |-> <<>>] : n \in {"httperr", "neterr"}}

\* How the listing request went: "ok" (a listing was read), "malformed" (an
\* ok status with a body that is no listing), "httperr" or "neterr".
ListingKind(a) ==
    IF a.net # "ok" THEN a.net ELSE IF a.json THEN "ok" ELSE "malformed"

\* Mutant of should_skip: the comparison with the watermark is lost.
should_skip_never(id, wm) == FALSE

\* if current_document_id <= last_downloaded_document_id: continue
\* Mutant of should_skip: the id equal to the watermark is not skipped.
should_skip_below(id, wm) == id < wm

should_skip(id, wm) == id <= wm

\* The state a poll works on: watermark, workdir, and the history of the
\* poll (ids requested, ids whose request failed, ids written to workdir,
\* whether an exception left the function).
PollState(wm, wd) ==
    [wm |-> wm, wd |-> wd, attempted |-> {}, failed |-> {}, written |-> {},
     twice |-> {}, raised |-> FALSE]

\* Mutant of write_and_advance: the watermark is set one below the id that
\* was written.
write_and_advance_short(st, id, body, w) ==
    IF w = "ok"
    THEN [st EXCEPT !.wd[id] = body, !.written = @ \cup {id},
                    !.twice = @ \cup ({id} \cap st.written), !.wm = id - 1]
    ELSE [st EXCEPT !.raised = TRUE]

\* Mutant of write_and_advance: the file is written, the watermark is not
\* assigned.
write_without_advance(st, id, body, w) ==
    IF w = "ok"
    THEN [st EXCEPT !.wd[id] = body, !.written = @ \cup {id},
                    !.twice = @ \cup ({id} \cap st.written)]
    ELSE [st EXCEPT !.raised = TRUE]

\* file.write_bytes(response.content); last_downloaded_document_id = id
\* An OSError leaves the function before the watermark is assigned.
write_and_advance(st, id, body, w) ==
    IF w = "ok"
    THEN [st EXCEPT !.wd[id] = body, !.written = @ \cup {id},
                    !.twice = @ \cup ({id} \cap st.written), !.wm = id]
    ELSE [st EXCEPT !.raised = TRUE]

Requested(st, id, o) ==
    [st EXCEPT !.attempted = @ \cup {id},
               !.failed = IF o.net = "ok" THEN @ ELSE @ \cup {id}]

\* email variant, body of the for loop: a failed download is stepped over.
download_email(st, id, o) ==
    LET response == paperlessngx_get_email(o.net)
        st1 == Requested(st, id, o)
    IN  IF response.kind = "response"
        THEN write_and_advance(st1, id, response.body, o.write)
        ELSE st1

\* upload variant, body of the for loop: whatever came back is written.
download_upload(st, id, o) ==
    LET response == paperlessngx_get_upload(o.net)
        st1 == Requested(st, id, o)
    IN  IF response.kind = "raise"
        THEN [st1 EXCEPT !.raised = TRUE]
        ELSE write_and_advance(st1, id, response.body, o.write)

\* for current_document_id in new_document_ids: ...
RECURSIVE download_loop(_, _, _, _, _)
download_loop(v, ids, k, st, out) ==
    IF k > Len(ids) \/ st.raised THEN st
    ELSE IF should_skip(ids[k], st.wm) THEN download_loop(v, ids, k + 1, st, out)
    ELSE download_loop(v, ids, k + 1,
            IF v = "email" THEN download_email(st, ids[k], out[ids[k]])
            ELSE download_upload(st, ids[k], out[ids[k]]),
            out)

\* Mutant of bootstrap: the first id of the list instead of the last.
bootstrap_first(ids) == ids[1]

\* new_document_ids[-1] of a non-empty sorted list
bootstrap(ids) == ids[Len(ids)]

\* Mutant of bootstrap_or_stay: the test for an empty list is lost, and
\* new_document_ids[-1] of an empty list raises IndexError.
bootstrap_or_raise(st, ids) ==
    IF ids # <<>> THEN [st EXCEPT !.wm = bootstrap(ids)]
    ELSE [st EXCEPT !.raised = TRUE]

\* if new_document_ids: last_downloaded_document_id = new_document_ids[-1]
bootstrap_or_stay(st, ids) ==
    IF ids # <<>> THEN [st EXCEPT !.wm = bootstrap(ids)] ELSE st

\* The ids a poll can request: the listed ids it does not skip.
Candidates(a, wm) ==
    IF a.net = "ok" /\ a.json /\ wm # Unset
    THEN {i \in Range(a.all) : ~should_skip(i, wm)}
    ELSE {}

\* The whole call.  kind says how it went:
\*   "nolisting"  paperlessngx_get returned None, the function returned
\*   "raised"     an exception left the function
\*   "bootstrap"  the watermark was unset, the function returned
\*   "polled"     the for loop ran to its end
lookup_new_documents(v, wm, wd, a, out) ==
    LET response == paperlessngx_get(v, a.net)
        st0 == PollState(wm, wd)
        ids == sorted(a.all)
        Result(kind, st) ==
            [kind |-> kind, listing |-> ListingKind(a), pre |-> wm,
             ids |-> Range(a.all), st |-> st]
    IN  IF response.kind = "raise" THEN Result("raised", [st0 EXCEPT !.raised = TRUE])
        ELSE IF response.kind = "none" THEN Result("nolisting", st0)
        ELSE IF ~a.json THEN Result("raised", [st0 EXCEPT !.raised = TRUE])
        ELSE IF wm = Unset
             THEN LET st == bootstrap_or_stay(st0, ids)
                  IN  Result(IF st.raised THEN "raised" ELSE "bootstrap", st)
        ELSE LET st == download_loop(v, ids, 1, st0, out)
             IN  Result(IF st.raised THEN "raised" ELSE "polled", st)

\* What a poll leaves in the history.
\* The query string of the listing request, as its parameters in order.
Param(k, x) == [key |-> k, value |-> x]
RecencyWindow == Param("query", "added:[-1 week to now]")
BaseQuery == <<RecencyWindow, Param("sort", "created"), Param("reverse", "1")>>

\* Mutant of lookup_url: the document type predicate is never appended.
lookup_url_tag_only(c) ==
    BaseQuery \o
    (IF ~Falsy(c.paperlessngx_filter_tag_id)
     THEN <<Param("tags__id__all", c.paperlessngx_filter_tag_id.s)>>
     ELSE <<>>)

lookup_url(c) ==
    BaseQuery \o
    (IF ~Falsy(c.paperlessngx_filter_tag_id)
     THEN <<Param("tags__id__all", c.paperlessngx_filter_tag_id.s)>>
     ELSE <<>>) \o
    (IF ~Falsy(c.paperlessngx_filter_document_type_id)
     THEN <<Param("document_type__id__in", c.paperlessngx_filter_document_type_id.s)>>
     ELSE <<>>)

PollRecord(r, q) ==
    [kind |-> r.kind, listing |-> r.listing, pre |-> r.pre, ids |-> r.ids,
     query |-> q,
     post |-> r.st.wm,
     attempted |-> r.st.attempted, failed |-> r.st.failed,
     written |-> r.st.written, twice |-> r.st.twice]

NoPoll ==
    [kind |-> "none", listing |-> "none", pre |-> Unset, ids |-> {},
     query |-> <<>>, post |-> Unset,
     attempted |-> {}, failed |-> {}, written |-> {}, twice |-> {}]

paperlessngx_lookup_new_documents ==
    /\ pc = "poll"
    /\ \E a \in ListingAnswers :
         \E out \in [Candidates(a, watermark) -> DownloadOutcomes] :
            LET r == lookup_new_documents(variant, watermark, workdir, a, out)
            IN  /\ watermark' = r.st.wm
                /\ workdir' = r.st.wd
                /\ pc' = IF r.st.raised THEN "crashed" ELSE "flush"
                /\ lastPoll' = PollRecord(r, lookup_url(config))
                /\ downloaded' = downloaded \cup (r.st.written \ r.st.failed)
                /\ bootMax' = IF r.kind = "bootstrap" THEN r.st.wm ELSE bootMax
                /\ listed' = listed \cup {i \in r.ids : bootMax' # Unset /\ i > bootMax'}
    /\ UNCHANGED <<variant, env, config, lastFlush, pending, firstCycle>>

\* ---- Forward Stage: send_workdir_to_sevdesk / sevdesk_upload_workdir ------
\* What the sink does with one file, and what os.unlink does after it:
\*   sink   ok         the mail was sent / the API answered 201
\*          refused    the API answered another status
\*          exception  open, smtplib or requests raised
\*   unlink ok / oserror
SinkOutcomes == {"ok", "refused", "exception"}
UnlinkOutcomes == {"ok", "oserror"}
\* (os.unlink is called only after a delivery.)
FlushOutcomes ==
    {o \in [sink : SinkOutcomes, unlink : UnlinkOutcomes] :
        o.sink # "ok" => o.unlink = "ok"}

\* email variant: both try blocks catch Exception and return False.
send_email_with_attachment(sink) ==
    IF sink = "ok" THEN "true" ELSE "false"

\* upload variant: response.status_code == 201; nothing is caught.
sevdesk_upload_file(sink) ==
    CASE sink = "ok" -> "true"
      [] sink = "refused" -> "false"
      [] sink = "exception" -> "raise"

\* The state a flush works on: workdir, and the history of the flush (files
\* handed to the sink, files the sink took, files deleted, files whose
\* deletion raised, whether an exception left the function).
FlushState(wd) ==
    [wd |-> wd, attempted |-> {}, delivered |-> {}, deleted |-> {},
     unlinkFailed |-> {}, raised |-> FALSE]

\* Mutant of unlink: every staged file is removed, not only the delivered one.
unlink_all(fs, f, u) ==
    IF u = "ok"
    THEN [fs EXCEPT !.wd = [i \in Ids |-> "absent"], !.deleted = @ \cup {f}]
    ELSE [fs EXCEPT !.unlinkFailed = @ \cup {f}, !.raised = TRUE]

\* os.unlink(file): an OSError is not caught.
unlink(fs, f, u) ==
    IF u = "ok"
    THEN [fs EXCEPT !.wd[f] = "absent", !.deleted = @ \cup {f}]
    ELSE [fs EXCEPT !.unlinkFailed = @ \cup {f}, !.raised = TRUE]

\* Mutant of upload_one: the file is deleted whatever the sink answered.
upload_one_always_unlink(v, fs, f, o) ==
    LET sent == IF v = "email" THEN send_email_with_attachment(o.sink)
                ELSE sevdesk_upload_file(o.sink)
        fs1 == [fs EXCEPT !.attempted = @ \cup {f},
                          !.delivered = IF o.sink = "ok" THEN @ \cup {f} ELSE @]
    IN  IF sent = "raise" THEN [fs1 EXCEPT !.raised = TRUE]
        ELSE unlink(fs1, f, o.unlink)

\* Body of the for loop over the staged files.
upload_one(v, fs, f, o) ==
    LET sent == IF v = "email" THEN send_email_with_attachment(o.sink)
                ELSE sevdesk_upload_file(o.sink)
        fs1 == [fs EXCEPT !.attempted = @ \cup {f},
                          !.delivered = IF o.sink = "ok" THEN @ \cup {f} ELSE @]
    IN  CASE sent = "raise" -> [fs1 EXCEPT !.raised = TRUE]
          [] sent = "true" -> unlink(fs1, f, o.unlink)
          [] sent = "false" -> fs1

\* for file in glob.glob("workdir/*.pdf"): ...
RECURSIVE upload_loop(_, _, _, _, _)
upload_loop(v, files, k, fs, out) ==
    IF k > Len(files) \/ fs.raised THEN fs
    ELSE upload_loop(v, files, k + 1, upload_one(v, fs, files[k], out[files[k]]), out)

\* The files of a set in ascending order.
RECURSIVE Ascending(_)
Ascending(S) ==
    IF S = {} THEN <<>> ELSE LET m == Max(S) IN Ascending(S \ {m}) \o <<m>>

\* Whether handling a file with outcome o ends the loop with an exception.
Raises(v, o) == upload_one(v, FlushState([i \in Ids |-> "good"]), 1, o).raised

\* The inputs of one call: the order in which glob returns the files of S,
\* and the outcome for each file.  glob may return any order, but the result
\* depends only on which files come before the first one whose handling
\* raises: the orders are enumerated up to that, and a file behind the
\* raising one, which is never handled, gets no outcome of its own.
FlushInputs(v, S) ==
    LET Quiet == {o \in FlushOutcomes : ~Raises(v, o)}
        Loud == {o \in FlushOutcomes : Raises(v, o)}
        Idle == [sink |-> "refused", unlink |-> "ok"]
    IN  {[files |-> Ascending(S), out |-> o] : o \in [S -> Quiet]}
        \cup UNION {UNION {
                {[files |-> Ascending(B) \o <<f>> \o Ascending(S \ (B \cup {f})),
                  out |-> [g \in S |-> IF g \in B THEN ob[g]
                                       ELSE IF g = f THEN of ELSE Idle]] :
                    ob \in [B -> Quiet], of \in Loud} :
                B \in SUBSET (S \ {f})} : f \in S}

\* What a flush leaves in the history; retried are the files it handed to
\* the sink that had a failed delivery behind them.
FlushRecord(pre, fs, pend) ==
    [kind |-> IF fs.raised THEN "raised" ELSE "returned", pre |-> pre,
     attempted |-> fs.attempted, delivered |-> fs.delivered,
     deleted |-> fs.deleted, unlinkFailed |-> fs.unlinkFailed,
     retried |-> fs.attempted \cap pend]

NoFlush ==
    [kind |-> "none", pre |-> {}, attempted |-> {}, delivered |-> {},
     deleted |-> {}, unlinkFailed |-> {}, retried |-> {}]

send_workdir_to_sevdesk ==
    /\ pc = "flush"
    /\ \E in \in FlushInputs(variant, Files(workdir)) :
            LET fs == upload_loop(variant, in.files, 1, FlushState(workdir), in.out)
            IN  /\ workdir' = fs.wd
                /\ pc' = IF fs.raised THEN "crashed" ELSE "sleep"
                /\ lastFlush' = FlushRecord(Files(workdir), fs, pending)
                /\ pending' = (pending \cup (fs.attempted \ fs.delivered))
                                    \ fs.deleted
    /\ lastPoll' = NoPoll
    /\ UNCHANGED <<variant, env, config, watermark, downloaded, listed, bootMax,
                   firstCycle>>

\* ---- main ------------------------------------------------------------------
\* time.sleep(config.run_interval), then the next turn of while True.
sleep ==
    /\ pc = "sleep"
    /\ pc' = "poll"
    /\ lastPoll' = NoPoll
    /\ lastFlush' = NoFlush
    /\ firstCycle' = FALSE
    /\ UNCHANGED <<variant, env, config, watermark, workdir, downloaded, listed, bootMax,
                   pending>>

\* The process ends (an uncaught exception, a signal) and is started again:
\* the module-level last_downloaded_document_id = 0 runs again, workdir/ is
\* what the last run left.
restart ==
    /\ pc' = "poll"
    /\ watermark' = Unset
    /\ lastPoll' = NoPoll
    /\ lastFlush' = NoFlush
    /\ downloaded' = {}
    /\ listed' = {}
    /\ bootMax' = Unset
    /\ firstCycle' = TRUE
    /\ UNCHANGED <<variant, env, config, workdir, pending>>

\* The state a process starts the loop in.
Fresh ==
    /\ watermark = Unset
    /\ workdir = [i \in Ids |-> "absent"]
    /\ lastPoll = NoPoll
    /\ lastFlush = NoFlush
    /\ downloaded = {}
    /\ listed = {}
    /\ bootMax = Unset
    /\ pending = {}
    /\ firstCycle = TRUE

\* Module level: config = Config(...).  An exception of int() ends the
\* process before main() is called.
load_config ==
    /\ pc = "start"
    /\ LET c == Config(variant, env)
       IN  IF c.error
           THEN pc' = "crashed" /\ config' = NoConfig
           ELSE pc' = "main" /\ config' = c
    /\ UNCHANGED <<variant, env, watermark, workdir, lastPoll, lastFlush,
                   downloaded, listed, bootMax, pending, firstCycle>>

\* main(), up to the loop: exit(1) unless config.is_valid().
main ==
    /\ pc = "main"
    /\ pc' = IF is_valid(variant, config) THEN "poll" ELSE "exited"
    /\ UNCHANGED <<variant, env, config, watermark, workdir, lastPoll,
                   lastFlush, downloaded, listed, bootMax, pending, firstCycle>>

\* Startup: any environment, from the start of the program to the head of
\* the loop.
InitMain ==
    /\ variant \in Variants
    /\ env \in Envs
    /\ config = NoConfig
    /\ pc = "start"
    /\ Fresh

NextMain ==
    \/ load_config
    \/ main

SpecMain == InitMain /\ [][NextMain]_vars

\* One poll: a process that bootstrapped at any id and has an empty staging
\* directory, under every setting of the two filter variables.
FilterEnvs ==
    {[FullEnv EXCEPT !.PAPERLESSNGX_FILTER_TAG_ID = t,
                     !.PAPERLESSNGX_FILTER_DOCUMENT_TYPE_ID = d] :
        t \in FilterValues, d \in FilterValues}

InitPoll ==
    /\ variant \in Variants
    /\ env \in FilterEnvs
    /\ config = Config(variant, env)
    /\ pc = "poll"
    /\ watermark \in {Unset} \cup Ids
    /\ bootMax = watermark
    /\ workdir = [i \in Ids |-> "absent"]
    /\ lastPoll = NoPoll
    /\ lastFlush = NoFlush
    /\ downloaded = {}
    /\ listed = {}
    /\ pending = {}
    /\ firstCycle = (watermark = Unset)

NextPoll == paperlessngx_lookup_new_documents

SpecPoll == InitPoll /\ [][NextPoll]_vars

\* The loop: a process with every variable set, at the head of while True.
Init ==
    /\ variant \in Variants
    /\ env = FullEnv
    /\ config = Config(variant, FullEnv)
    /\ pc = "poll"
    /\ watermark = Unset
    /\ workdir = [i \in Ids |-> "absent"]
    /\ lastPoll = NoPoll
    /\ lastFlush = NoFlush
    /\ downloaded = {}
    /\ listed = {}
    /\ bootMax = Unset
    /\ pending = {}
    /\ firstCycle = TRUE

Next ==
    \/ paperlessngx_lookup_new_documents
    \/ send_workdir_to_sevdesk
    \/ sleep
    \/ restart

Spec == Init /\ [][Next]_vars

TypeOK ==
    /\ variant \in Variants
    /\ env \in Envs
    /\ pc \in {"start", "main", "poll", "flush", "sleep", "exited", "crashed"}
    /\ watermark \in {Unset} \cup Ids
    /\ workdir \in [Ids -> FileStates]
    /\ downloaded \subseteq Ids
    /\ listed \subseteq Ids
    /\ bootMax \in {Unset} \cup Ids
    /\ pending \subseteq Files(workdir)
    /\ firstCycle \in BOOLEAN

\* ---- the claims ------------------------------------------------------------
\* A step that is one call of the Fetch Stage / of the Forward Stage.
PollStep == pc = "poll" /\ lastPoll' # NoPoll
FlushStep == pc = "flush" /\ lastFlush' # NoFlush

\* C1 (Fetch Stage of main.py:105-138): when a download fails for some id
\* during a poll, the poll stops there: no id greater than the failed one is
\* requested or staged in that poll, and the watermark at the end of the
\* poll is the last id downloaded before the failure.
C1_PollStopsAtFailedDownload ==
    variant = "email" =>
        \A f \in lastPoll.failed :
            /\ \A j \in lastPoll.attempted \cup lastPoll.written : j <= f
            /\ lastPoll.post =
                    Max({j \in lastPoll.written : j < f} \cup {lastPoll.pre})

\* C2 (Fetch Stage of main.py:105-138): once the watermark is primed it
\* never passes an id that was listed but not downloaded: every id listed
\* above the bootstrap watermark is either downloaded or still greater than
\* the watermark, so a failed id is requested again by the next poll that
\* lists it.
C2_WatermarkNeverPassesUndownloaded ==
    (variant = "email" /\ bootMax # Unset) =>
        \A i \in listed : i \in downloaded \/ i > watermark

\* C3: a poll that finds the watermark unset and reads a non-empty listing
\* requests nothing, stages nothing, and sets the watermark to the maximum
\* listed id; a poll with a primed watermark requests and stages only
\* listed ids strictly greater than the watermark.
C3_Bootstrap ==
    [][PollStep =>
        /\ (watermark = Unset /\ lastPoll'.listing = "ok" /\ lastPoll'.ids # {}) =>
                /\ watermark' = Max(lastPoll'.ids)
                /\ workdir' = workdir
                /\ lastPoll'.attempted = {}
                /\ lastPoll'.written = {}
                /\ downloaded' = downloaded
        /\ watermark # Unset =>
                /\ \A i \in lastPoll'.attempted \cup lastPoll'.written :
                        i \in lastPoll'.ids /\ i > watermark
                /\ \A i \in Ids :
                        workdir'[i] # workdir[i] =>
                            i \in lastPoll'.ids /\ i > watermark
    ]_vars

\* C3 witness: after a bootstrap at 2, a poll that lists {2, 3} has staged 3
\* and nothing else.
C3_Witness ==
    /\ bootMax = 2
    /\ lastPoll.kind = "polled"
    /\ lastPoll.pre = 2
    /\ lastPoll.ids = {2, 3}
    /\ lastPoll.attempted = {3}
    /\ lastPoll.written = {3}
    /\ workdir[2] = "absent"

\* C4: while the process lives, no step lowers the watermark: not a poll
\* (bootstrap, failed listing, failed download, any listing order), not a
\* flush.  Only a new process starts again from the unset value.
C4_WatermarkMonotone == [][restart \/ watermark' >= watermark]_vars

\* C4 witness: a poll whose listing held an id below the primed watermark
\* and an id above it has advanced the watermark.
C4_Witness ==
    /\ lastPoll.kind = "polled"
    /\ lastPoll.pre # Unset
    /\ \E i \in lastPoll.ids : i < lastPoll.pre
    /\ lastPoll.post > lastPoll.pre
    /\ watermark = lastPoll.post

C6_DeleteOnlyAfterDelivery ==
    [][FlushStep =>
        \A f \in Files(workdir) :
            /\ workdir'[f] = "absent" => f \in lastFlush'.delivered
            /\ f \notin lastFlush'.delivered => workdir'[f] = workdir[f]
            /\ (f \in lastFlush'.delivered /\ f \notin lastFlush'.unlinkFailed)
                    => workdir'[f] = "absent"
    ]_vars

\* C6 witness: a file that stayed staged after a failed delivery has been
\* delivered and deleted by a later flush, which left another file, whose
\* delivery failed, in place.
C6_Witness ==
    \E f, g \in Ids :
        /\ f \in lastFlush.retried \cap lastFlush.deleted
        /\ workdir[f] = "absent"
        /\ g \in lastFlush.attempted \ lastFlush.delivered
        /\ workdir[g] # "absent"

\* C7: when the listing request fails, the poll returns with the watermark
\* and the staging directory as they were, no exception reaches main, and
\* the cycle goes on with the Forward Stage.
C7_ListingFailureSkipsPoll ==
    [][(PollStep /\ lastPoll'.listing \in {"httperr", "neterr"}) =>
        /\ watermark' = watermark
        /\ workdir' = workdir
        /\ pc' = "flush"
    ]_vars

\* C8 (main.py:105-147, 191-194): once the loop has started no error ends
\* the process: after every poll and every flush main is still running.
C8_NoErrorEndsTheLoop == variant = "email" => pc # "crashed"

\* C9: a failed deletion after a successful delivery is not fatal: the flush
\* goes on to the remaining files and the process keeps cycling.
C9_UnlinkFailureNotFatal ==
    lastFlush.unlinkFailed # {} =>
        /\ pc = "sleep"
        /\ lastFlush.attempted = lastFlush.pre

\* C10: a flush changes nothing but the staged files it delivers: the
\* watermark stays, only delivered files leave staging, and with staging
\* empty there is no sink call and no change at all.
C10_FlushFrame ==
    [][FlushStep =>
        /\ watermark' = watermark
        /\ \A f \in Ids :
                workdir'[f] # workdir[f] =>
                    f \in lastFlush'.delivered /\ workdir'[f] = "absent"
        /\ Files(workdir) = {} =>
                /\ lastFlush'.attempted = {}
                /\ workdir' = workdir
                /\ pc' = "sleep"
                /\ UNCHANGED <<downloaded, listed, bootMax, pending>>
    ]_vars

\* C10 witness: document 3 was staged by a poll that advanced the watermark
\* to 3; a flush delivered it, staging is empty and the watermark is 3.
C10_Witness ==
    /\ 3 \in downloaded
    /\ lastFlush.kind = "returned"
    /\ lastFlush.pre = {3}
    /\ lastFlush.deleted = {3}
    /\ Files(workdir) = {}
    /\ watermark = 3

\* C11: a poll that finds the watermark unset and reads an empty listing
\* leaves the watermark unset, downloads nothing and returns; as long as the
\* watermark is unset every poll that reads a listing takes the bootstrap
\* branch again, and the one that reads a non-empty listing sets the
\* watermark without downloading.
C11_EmptyListingKeepsUnset ==
    [][(PollStep /\ watermark = Unset /\ lastPoll'.listing = "ok") =>
        /\ lastPoll'.kind = "bootstrap"
        /\ pc' = "flush"
        /\ lastPoll'.attempted = {}
        /\ lastPoll'.written = {}
        /\ workdir' = workdir
        /\ downloaded' = downloaded
        /\ watermark' = IF lastPoll'.ids = {} THEN Unset ELSE Max(lastPoll'.ids)
    ]_vars

\* C11 witness: a poll with the watermark unset has read an empty listing
\* and returned; the watermark is still unset and nothing was staged by it.
C11_Witness ==
    /\ lastPoll.kind = "bootstrap"
    /\ lastPoll.listing = "ok"
    /\ lastPoll.ids = {}
    /\ lastPoll.written = {}
    /\ watermark = Unset
    /\ pc = "flush"

\* C12: if a required configuration value is missing at startup, the process
\* ends with a non-zero status (exit(1), or the uncaught exception of int())
\* and never reaches the loop, so nothing is listed, downloaded or delivered.
C12_MissingConfigExits ==
    (\E name \in RequiredVars(variant) : env[name] = PyNone) =>
        /\ pc \in {"start", "main", "exited", "crashed"}
        /\ pc = "main" => ~is_valid(variant, config)
        /\ lastPoll = NoPoll /\ lastFlush = NoFlush /\ downloaded = {}

C12_Witness ==
    /\ variant = "upload"
    /\ env.SEVDESK_TOKEN = PyNone
    /\ env.PAPERLESSNGX_URL # PyNone /\ env.PAPERLESSNGX_TOKEN # PyNone
    /\ pc = "exited"

\* C13: with RUN_INTERVAL unset and every other variable set, the process
\* starts and its sleep interval is 300.
C13_IntervalDefaults ==
    (env = [FullEnv EXCEPT !.RUN_INTERVAL = PyNone] /\ pc # "start") =>
        /\ pc # "crashed"
        /\ config.run_interval = PyInt(DefaultRunInterval)

\* C20: with every variable the email variant reads set to a usable value,
\* the validity check passes and the process reaches the loop.
C20_CompleteConfigStarts ==
    (variant = "email" /\ env = FullEnv) => pc \notin {"exited", "crashed"}

\* C14: the listing query always carries the one-week recency window; it
\* carries the tag predicate, with the configured id, iff PAPERLESSNGX_FILTER_TAG_ID
\* is set to a non-empty value, and the type predicate iff
\* PAPERLESSNGX_FILTER_DOCUMENT_TYPE_ID is; it carries nothing else but the
\* sort order.
Configured(x) == x # PyNone /\ x # PyStr("")
Predicates(q) == {p \in Range(q) : p.key \notin {"query", "sort", "reverse"}}

C14_FilterComposition ==
    lastPoll # NoPoll =>
        LET q == lastPoll.query
            tag == env.PAPERLESSNGX_FILTER_TAG_ID
            type == env.PAPERLESSNGX_FILTER_DOCUMENT_TYPE_ID
        IN  /\ RecencyWindow \in Range(q)
            /\ Predicates(q) =
                 (IF Configured(tag)
                  THEN {Param("tags__id__all", tag.s)} ELSE {})
                 \cup
                 (IF Configured(type)
                  THEN {Param("document_type__id__in", type.s)} ELSE {})
            /\ Len(q) = 3 + Cardinality(Predicates(q))

C14_Witness ==
    /\ lastPoll.listing = "ok"
    /\ Configured(env.PAPERLESSNGX_FILTER_TAG_ID)
    /\ Configured(env.PAPERLESSNGX_FILTER_DOCUMENT_TYPE_ID)
    /\ Cardinality(Predicates(lastPoll.query)) = 2

\* C15: every id that a poll requests, writes to the staging directory or
\* completes is strictly greater than the watermark the bootstrap poll of this
\* process set, whatever the later listings contain; so no document listed at
\* bootstrap is downloaded.
C15_BootstrapBacklogSkipped ==
    \A i \in downloaded \cup lastPoll.attempted \cup lastPoll.written :
        bootMax # Unset /\ i > bootMax

C15_Witness ==
    /\ bootMax = 2
    /\ 1 \in lastPoll.ids
    /\ 3 \in lastPoll.written
    /\ 3 \in downloaded

\* C16: every document a poll staged receives a delivery attempt in the flush
\* of the same cycle.
C16_StagedAttemptedSameCycle ==
    [][FlushStep => lastPoll.written \subseteq lastFlush'.attempted]_vars

\* C17: a staged file whose delivery failed before is attempted again in
\* every later flush.
C17_FailedDeliveryRetried ==
    [][(FlushStep /\ variant = "email") =>
        pending \subseteq lastFlush'.attempted]_vars

\* C18: every file that is in the staging directory when a process starts
\* receives a delivery attempt in the first flush of that process.
C18_FirstFlushAttemptsLeftovers ==
    [][(FlushStep /\ firstCycle /\ variant = "email") =>
        Files(workdir) \subseteq lastFlush'.attempted]_vars

\* C19: within one process an id that was downloaded and staged is never
\* requested again by a later poll, also when it is listed again and its file
\* is gone from the staging directory, and no poll writes an id twice.
C19_StagedAtMostOnce ==
    [][PollStep =>
        /\ lastPoll'.attempted \cap downloaded = {}
        /\ lastPoll'.twice = {}
      ]_vars

C19_Witness ==
    \E i \in downloaded :
        /\ workdir[i] = "absent"
        /\ i \in lastPoll.ids
        /\ i \notin lastPoll.attempted
        /\ lastPoll.written \ {i} # {}

====
